---- MODULE Spec2Model ----
(***************************************************************************)
(* The combined-mode sketch of the Elegoo smart car: line following,       *)
(* obstacle overtake, U-turn at the far marker and stop at the home        *)
(* marker.  The repository holds two variants of the sketch,               *)
(* src/unnamed/part_000 and src/garage_door.ino; the variable `variant'    *)
(* says which one runs.                                                    *)
(*                                                                         *)
(* The functions of the sketch are operators over a record s that holds    *)
(* what a function can read or change: the output pins, the clock, the     *)
(* two globals, the value the last call returned, and the trace of the     *)
(* calls made to the board (digitalWrite, analogWrite, delay, pulseIn,     *)
(* analogRead, millis, Serial.println) in the order the code makes them.   *)
(***************************************************************************)
EXTENDS Integers, Sequences, FiniteSets

VARIABLES
  variant,           \* which of the two sketches is flashed
  pc,                \* "setup" before setup() has run, "loop" after
  lap_stage,         \* global lap_stage
  stage_start_time,  \* global stage_start_time
  now,               \* the board's clock in milliseconds since reset
  pin,               \* level / PWM duty last written to each output pin
  trace,             \* board calls made by the handler that ran last
  call               \* SpecIsBlack only: the last isBlack call, argument and result

vars == <<variant, pc, lap_stage, stage_start_time, now, pin, trace, call>>

----------------------------------------------------------------------------
(* Bounds of the model *)

\* a leg is followed for MaxLeg milliseconds after stage_start_time and no
\* longer: the minimum lap time, a millisecond, and one overtake on top
MaxLeg == 25000
\* SpecIsBlack tries the intensities within Span of either threshold
Span == 30

----------------------------------------------------------------------------
(* 1. Pin definitions *)

PIN_ITR_LEFT == 16     \* A2
PIN_ITR_MIDDLE == 15   \* A1
PIN_ITR_RIGHT == 14    \* A0
PIN_TRIG == 13
PIN_ECHO == 12
PIN_STBY == 3
PIN_PWMA == 5          \* right speed
PIN_AIN1 == 7          \* right direction
PIN_PWMB == 6          \* left speed
PIN_BIN1 == 8          \* left direction

HIGH == 1
LOW == 0

OutputPins == {PIN_TRIG, PIN_STBY, PIN_PWMA, PIN_AIN1, PIN_PWMB, PIN_BIN1}

(* 2. Settings *)

THRESHOLD_LOW == 200
THRESHOLD_HIGH == 1100
SPEED_LINE_FWD == IF variant = "part_000" THEN 75 ELSE 80
SPEED_LINE_TURN == 120
OBSTACLE_LIMIT == 10
SPEED_MANEUVER == 150
TURN_TIME_90 == IF variant = "part_000" THEN 370 ELSE 365
TURN_TIME_180 == 790
DRIVE_SIDE_TIME == IF variant = "part_000" THEN 700 ELSE 600
DRIVE_PASS_TIME == 1200
MIN_LAP_TIME == 19500

\* what getDistance returns when pulseIn timed out
NO_ECHO == 200

----------------------------------------------------------------------------
(* The board *)

Ev(op, p, v) == [op |-> op, pin |-> p, v |-> v]

Log(s, e) == [s EXCEPT !.trace = Append(@, e)]

digitalWrite(s, p, level) ==
  Log([s EXCEPT !.pin[p] = level], Ev("digitalWrite", p, level))

analogWrite(s, p, duty) ==
  Log([s EXCEPT !.pin[p] = duty], Ev("analogWrite", p, duty))

\* delay(ms) blocks: the clock moves on by ms and nothing else happens
delay(s, ms) ==
  Log([s EXCEPT !.now = @ + ms], Ev("delay", 0, ms))

\* microsecond waits are below the clock's resolution
delayMicroseconds(s, us) == Log(s, Ev("delayMicroseconds", 0, us))

\* millis(): the clock as an unsigned long.  It wraps at 2^32 ms (49 days),
\* far beyond what MaxLeg lets it reach, so within the model it is the clock
\* itself.
millis(s) == [Log(s, Ev("millis", 0, s.now)) EXCEPT !.ret = s.now]

\* analogRead(p) returns the intensity v the sensor presents
analogRead(s, p, v) ==
  [Log(s, Ev("analogRead", p, v)) EXCEPT !.ret = v]

\* pulseIn(p, HIGH, timeout) returns the echo's length in microseconds,
\* or 0 when no echo came within the timeout
pulseIn(s, p, duration) ==
  [Log(s, Ev("pulseIn", p, duration)) EXCEPT !.ret = duration]

println(s, text) == Log(s, Ev(text, 0, 0))

----------------------------------------------------------------------------
(* Helper functions *)

\* isBlack with the low comparison made inclusive
isBlackInclusive(value) == value >= THRESHOLD_LOW /\ value < THRESHOLD_HIGH

isBlack(value) == value > THRESHOLD_LOW /\ value < THRESHOLD_HIGH

\* getDistance without the test for a timeout
getDistanceNoSentinel(s, duration) ==
  LET s1 == digitalWrite(s, PIN_TRIG, LOW)
      s2 == delayMicroseconds(s1, 2)
      s3 == digitalWrite(s2, PIN_TRIG, HIGH)
      s4 == delayMicroseconds(s3, 10)
      s5 == digitalWrite(s4, PIN_TRIG, LOW)
      s6 == pulseIn(s5, PIN_ECHO, duration)
  IN  [s6 EXCEPT !.ret = (@ * 34) \div 2000]

\* duration * 0.034 / 2, truncated to int
getDistance(s, duration) ==
  LET s1 == digitalWrite(s, PIN_TRIG, LOW)
      s2 == delayMicroseconds(s1, 2)
      s3 == digitalWrite(s2, PIN_TRIG, HIGH)
      s4 == delayMicroseconds(s3, 10)
      s5 == digitalWrite(s4, PIN_TRIG, LOW)
      s6 == pulseIn(s5, PIN_ECHO, duration)
  IN  [s6 EXCEPT !.ret = IF @ = 0 THEN NO_ECHO ELSE (@ * 34) \div 2000]

moveCar(s, speedLeft, speedRight) ==
  LET s1 == digitalWrite(s, PIN_AIN1, HIGH)
      s2 == analogWrite(s1, PIN_PWMA, speedRight)
      s3 == digitalWrite(s2, PIN_BIN1, HIGH)
  IN  analogWrite(s3, PIN_PWMB, speedLeft)

turnRight(s, speed) ==
  LET s1 == digitalWrite(s, PIN_AIN1, LOW)
      s2 == analogWrite(s1, PIN_PWMA, speed)
      s3 == digitalWrite(s2, PIN_BIN1, HIGH)
  IN  analogWrite(s3, PIN_PWMB, speed)

turnLeft(s, speed) ==
  LET s1 == digitalWrite(s, PIN_AIN1, HIGH)
      s2 == analogWrite(s1, PIN_PWMA, speed)
      s3 == digitalWrite(s2, PIN_BIN1, LOW)
  IN  analogWrite(s3, PIN_PWMB, speed)

\* stopCar that also puts both direction pins LOW
stopCarClearsDir(s) ==
  LET s1 == digitalWrite(s, PIN_AIN1, LOW)
      s2 == analogWrite(s1, PIN_PWMA, 0)
      s3 == digitalWrite(s2, PIN_BIN1, LOW)
  IN  analogWrite(s3, PIN_PWMB, 0)

stopCar(s) ==
  analogWrite(analogWrite(s, PIN_PWMA, 0), PIN_PWMB, 0)

----------------------------------------------------------------------------
(* Core behaviours *)

\* performOvertake with the second left turn made to the right
performOvertakeWrongTurn(s) ==
  LET s1 == delay(stopCar(s), 500)
      s2 == delay(turnRight(s1, SPEED_MANEUVER), TURN_TIME_90)
      s3 == delay(moveCar(s2, 80, 80), DRIVE_SIDE_TIME)
      s4 == delay(turnLeft(s3, SPEED_MANEUVER), TURN_TIME_90)
      s5 == delay(moveCar(s4, 80, 80), DRIVE_PASS_TIME)
      s6 == delay(turnRight(s5, SPEED_MANEUVER), TURN_TIME_90)
      s7 == delay(moveCar(s6, 80, 80), DRIVE_SIDE_TIME)
      s8 == delay(turnRight(s7, SPEED_MANEUVER), TURN_TIME_90)
  IN  delay(stopCar(s8), 500)

\* performOvertake ending with a restart of the lap timer
performOvertakeResets(s) ==
  LET s1 == delay(stopCar(s), 500)
      s2 == delay(turnRight(s1, SPEED_MANEUVER), TURN_TIME_90)
      s3 == delay(moveCar(s2, 80, 80), DRIVE_SIDE_TIME)
      s4 == delay(turnLeft(s3, SPEED_MANEUVER), TURN_TIME_90)
      s5 == delay(moveCar(s4, 80, 80), DRIVE_PASS_TIME)
      s6 == delay(turnLeft(s5, SPEED_MANEUVER), TURN_TIME_90)
      s7 == delay(moveCar(s6, 80, 80), DRIVE_SIDE_TIME)
      s8 == delay(turnRight(s7, SPEED_MANEUVER), TURN_TIME_90)
      s9 == millis(delay(stopCar(s8), 500))
  IN  [s9 EXCEPT !.stage_start_time = s9.ret]

\* performOvertake with the lap timer paused for as long as it takes
performOvertakePausesTimer(s) ==
  LET s1 == delay(stopCar(s), 500)
      s2 == delay(turnRight(s1, SPEED_MANEUVER), TURN_TIME_90)
      s3 == delay(moveCar(s2, 80, 80), DRIVE_SIDE_TIME)
      s4 == delay(turnLeft(s3, SPEED_MANEUVER), TURN_TIME_90)
      s5 == delay(moveCar(s4, 80, 80), DRIVE_PASS_TIME)
      s6 == delay(turnLeft(s5, SPEED_MANEUVER), TURN_TIME_90)
      s7 == delay(moveCar(s6, 80, 80), DRIVE_SIDE_TIME)
      s8 == delay(turnRight(s7, SPEED_MANEUVER), TURN_TIME_90)
      s9 == delay(stopCar(s8), 500)
  IN  [s9 EXCEPT !.stage_start_time = @ + (s9.now - s.now)]

performOvertake(s) ==
  LET s1 == delay(stopCar(s), 500)
      s2 == delay(turnRight(s1, SPEED_MANEUVER), TURN_TIME_90)
      s3 == delay(moveCar(s2, 80, 80), DRIVE_SIDE_TIME)
      s4 == delay(turnLeft(s3, SPEED_MANEUVER), TURN_TIME_90)
      s5 == delay(moveCar(s4, 80, 80), DRIVE_PASS_TIME)
      s6 == delay(turnLeft(s5, SPEED_MANEUVER), TURN_TIME_90)
      s7 == delay(moveCar(s6, 80, 80), DRIVE_SIDE_TIME)
      s8 == delay(turnRight(s7, SPEED_MANEUVER), TURN_TIME_90)
  IN  delay(stopCar(s8), 500)

\* the spin both variants of performUturn share
Spin180(s) ==
  LET s1 == delay(stopCar(s), 500)
      s2 == digitalWrite(s1, PIN_AIN1, HIGH)
      s3 == analogWrite(s2, PIN_PWMA, SPEED_MANEUVER)
      s4 == digitalWrite(s3, PIN_BIN1, LOW)
      s5 == analogWrite(s4, PIN_PWMB, SPEED_MANEUVER)
      s6 == delay(s5, TURN_TIME_180)
  IN  stopCar(s6)

\* performUturn of part_000: pause and creep forward after the spin
performUturn(s) ==
  LET s1 == delay(Spin180(s), 500)
      s2 == moveCar(s1, SPEED_LINE_FWD, SPEED_LINE_FWD)
  IN  delay(s2, 300)

\* performUturn of garage_door.ino: nothing after the spin
performUturnDwell(s) == Spin180(s)

\* the marker branch of part_000 with "else if" written as "if": the home
\* test runs again on the stage the far-end branch has just set
MarkerFollowerFallThrough(s) ==
  LET a == IF s.lap_stage = 0
             THEN LET s1 == println(s, "END REACHED -> TURNING 180")
                      s2 == performUturn(s1)
                      s3 == [s2 EXCEPT !.lap_stage = 1]
                      s4 == millis(s3)
                  IN  [s4 EXCEPT !.stage_start_time = s4.ret]
             ELSE s
  IN  IF a.lap_stage = 1
        THEN LET s1 == println(a, "HOME REACHED -> STOPPING")
                 s2 == stopCar(s1)
             IN  [s2 EXCEPT !.lap_stage = 2]
        ELSE a

\* the marker branch of part_000 with the timer reset ahead of the U-turn
MarkerFollowerTimerFirst(s) ==
  IF s.lap_stage = 0
    THEN LET s1 == println(s, "END REACHED -> TURNING 180")
             s2 == millis(s1)
             s3 == [s2 EXCEPT !.stage_start_time = s2.ret, !.lap_stage = 1]
         IN  performUturn(s3)
    ELSE IF s.lap_stage = 1
      THEN LET s1 == println(s, "HOME REACHED -> STOPPING")
               s2 == stopCar(s1)
           IN  [s2 EXCEPT !.lap_stage = 2]
      ELSE s

\* the marker branch of part_000 with the home branch resetting the timer as
\* the far-end branch does
MarkerFollowerHomeResets(s) ==
  IF s.lap_stage = 0
    THEN LET s1 == println(s, "END REACHED -> TURNING 180")
             s2 == performUturn(s1)
             s3 == [s2 EXCEPT !.lap_stage = 1]
             s4 == millis(s3)
         IN  [s4 EXCEPT !.stage_start_time = s4.ret]
    ELSE IF s.lap_stage = 1
      THEN LET s1 == println(s, "HOME REACHED -> STOPPING")
               s2 == stopCar(s1)
               s3 == [s2 EXCEPT !.lap_stage = 2]
               s4 == millis(s3)
           IN  [s4 EXCEPT !.stage_start_time = s4.ret]
      ELSE s

\* the marker branch of part_000 with the home branch stopping the car but
\* leaving lap_stage at RETURNING
MarkerFollowerNoFinish(s) ==
  IF s.lap_stage = 0
    THEN LET s1 == println(s, "END REACHED -> TURNING 180")
             s2 == performUturn(s1)
             s3 == [s2 EXCEPT !.lap_stage = 1]
             s4 == millis(s3)
         IN  [s4 EXCEPT !.stage_start_time = s4.ret]
    ELSE IF s.lap_stage = 1
      THEN LET s1 == println(s, "HOME REACHED -> STOPPING")
           IN  stopCar(s1)
      ELSE s

\* the marker branch of part_000
MarkerFollower(s) ==
  IF s.lap_stage = 0
    THEN LET s1 == println(s, "END REACHED -> TURNING 180")
             s2 == performUturn(s1)
             s3 == [s2 EXCEPT !.lap_stage = 1]
             s4 == millis(s3)
         IN  [s4 EXCEPT !.stage_start_time = s4.ret]
    ELSE IF s.lap_stage = 1
      THEN LET s1 == println(s, "HOME REACHED -> STOPPING")
               s2 == stopCar(s1)
           IN  [s2 EXCEPT !.lap_stage = 2]
      ELSE s

\* the marker branch of garage_door.ino
MarkerLogic(s) ==
  IF s.lap_stage = 0
    THEN LET s1 == println(s, "END REACHED -> TURNING 180")
             s2 == performUturnDwell(s1)
             s3 == delay(stopCar(s2), 5000)
             s4 == [s3 EXCEPT !.lap_stage = 1]
             s5 == millis(s4)
             s6 == [s5 EXCEPT !.stage_start_time = s5.ret]
             s7 == moveCar(s6, SPEED_LINE_FWD, SPEED_LINE_FWD)
         IN  delay(s7, 300)
    ELSE IF s.lap_stage = 1
      THEN LET s1 == println(s, "HOME REACHED -> STOPPING")
               s2 == stopCar(s1)
           IN  [s2 EXCEPT !.lap_stage = 2]
      ELSE s

\* the rules below the marker rule with the left test ahead of the right one
SteerLeftFirst(s, val_L, val_M, val_R) ==
  IF isBlack(val_M) /\ ~isBlack(val_L) /\ ~isBlack(val_R)
    THEN moveCar(s, SPEED_LINE_FWD, SPEED_LINE_FWD)
  ELSE IF isBlack(val_L)
    THEN turnLeft(s, SPEED_LINE_TURN)
  ELSE IF isBlack(val_R)
    THEN turnRight(s, SPEED_LINE_TURN)
  ELSE IF isBlack(val_M)
    THEN moveCar(s, SPEED_LINE_FWD, SPEED_LINE_FWD)
  ELSE stopCar(s)

\* the rules below the marker rule with the line-lost stop restarting the
\* lap timer
SteerStopRestartsTimer(s, val_L, val_M, val_R) ==
  IF isBlack(val_M) /\ ~isBlack(val_L) /\ ~isBlack(val_R)
    THEN moveCar(s, SPEED_LINE_FWD, SPEED_LINE_FWD)
  ELSE IF isBlack(val_R)
    THEN turnRight(s, SPEED_LINE_TURN)
  ELSE IF isBlack(val_L)
    THEN turnLeft(s, SPEED_LINE_TURN)
  ELSE IF isBlack(val_M)
    THEN moveCar(s, SPEED_LINE_FWD, SPEED_LINE_FWD)
  ELSE LET s1 == millis(stopCar(s))
       IN  [s1 EXCEPT !.stage_start_time = s1.ret]

\* the rules below the marker rule with the left correction replaced by a stop
SteerLeftStops(s, val_L, val_M, val_R) ==
  IF isBlack(val_M) /\ ~isBlack(val_L) /\ ~isBlack(val_R)
    THEN moveCar(s, SPEED_LINE_FWD, SPEED_LINE_FWD)
  ELSE IF isBlack(val_R)
    THEN turnRight(s, SPEED_LINE_TURN)
  ELSE IF isBlack(val_L)
    THEN stopCar(s)
  ELSE IF isBlack(val_M)
    THEN moveCar(s, SPEED_LINE_FWD, SPEED_LINE_FWD)
  ELSE stopCar(s)

\* the rules below the marker rule with the right correction made only when
\* the middle sensor is off the line
SteerRightNeedsMiddleOff(s, val_L, val_M, val_R) ==
  IF isBlack(val_M) /\ ~isBlack(val_L) /\ ~isBlack(val_R)
    THEN moveCar(s, SPEED_LINE_FWD, SPEED_LINE_FWD)
  ELSE IF isBlack(val_R) /\ ~isBlack(val_M)
    THEN turnRight(s, SPEED_LINE_TURN)
  ELSE IF isBlack(val_L)
    THEN turnLeft(s, SPEED_LINE_TURN)
  ELSE IF isBlack(val_M)
    THEN moveCar(s, SPEED_LINE_FWD, SPEED_LINE_FWD)
  ELSE stopCar(s)

\* the rules below the marker rule, the same in both variants
Steer(s, val_L, val_M, val_R) ==
  IF isBlack(val_M) /\ ~isBlack(val_L) /\ ~isBlack(val_R)
    THEN moveCar(s, SPEED_LINE_FWD, SPEED_LINE_FWD)
  ELSE IF isBlack(val_R)
    THEN turnRight(s, SPEED_LINE_TURN)
  ELSE IF isBlack(val_L)
    THEN turnLeft(s, SPEED_LINE_TURN)
  ELSE IF isBlack(val_M)
    THEN moveCar(s, SPEED_LINE_FWD, SPEED_LINE_FWD)
  ELSE stopCar(s)

\* the lap-time test with >= for >
LapTimeUpInclusive(s) ==
  IF s.ret >= s.stage_start_time
    THEN s.ret - s.stage_start_time >= MIN_LAP_TIME
    ELSE TRUE

\* millis() - stage_start_time > MIN_LAP_TIME in unsigned long arithmetic:
\* a difference below zero wraps to 2^32 minus it, which is above any lap time
LapTimeUp(s) ==
  IF s.ret >= s.stage_start_time
    THEN s.ret - s.stage_start_time > MIN_LAP_TIME
    ELSE TRUE

\* runLineFollower of part_000 with the too-early branch restarting the timer
\* before it drives on
runLineFollowerEarlyResets(s, vL, vM, vR) ==
  LET s1 == analogRead(s, PIN_ITR_LEFT, vL)
      val_L == s1.ret
      s2 == analogRead(s1, PIN_ITR_MIDDLE, vM)
      val_M == s2.ret
      s3 == analogRead(s2, PIN_ITR_RIGHT, vR)
      val_R == s3.ret
  IN  IF isBlack(val_L) /\ isBlack(val_M) /\ isBlack(val_R)
        THEN LET s4 == millis(s3)
             IN  IF LapTimeUp(s4)
                   THEN MarkerFollower(s4)
                   ELSE moveCar([s4 EXCEPT !.stage_start_time = s4.ret],
                                SPEED_LINE_FWD, SPEED_LINE_FWD)
        ELSE Steer(s3, val_L, val_M, val_R)

\* runLineFollower of part_000; vL, vM, vR are what the three sensors present
runLineFollower(s, vL, vM, vR) ==
  LET s1 == analogRead(s, PIN_ITR_LEFT, vL)
      val_L == s1.ret
      s2 == analogRead(s1, PIN_ITR_MIDDLE, vM)
      val_M == s2.ret
      s3 == analogRead(s2, PIN_ITR_RIGHT, vR)
      val_R == s3.ret
  IN  IF isBlack(val_L) /\ isBlack(val_M) /\ isBlack(val_R)
        THEN LET s4 == millis(s3)
             IN  IF LapTimeUp(s4)
                   THEN MarkerFollower(s4)
                   ELSE moveCar(s4, SPEED_LINE_FWD, SPEED_LINE_FWD)
        ELSE Steer(s3, val_L, val_M, val_R)

\* runLineLogic of garage_door.ino with the left correction tried before the
\* right one
runLineLogicLeftFirst(s, vL, vM, vR) ==
  LET s1 == analogRead(s, PIN_ITR_LEFT, vL)
      val_L == s1.ret
      s2 == analogRead(s1, PIN_ITR_MIDDLE, vM)
      val_M == s2.ret
      s3 == analogRead(s2, PIN_ITR_RIGHT, vR)
      val_R == s3.ret
  IN  IF isBlack(val_L) /\ isBlack(val_M) /\ isBlack(val_R)
        THEN LET s4 == millis(s3)
             IN  IF LapTimeUp(s4)
                   THEN MarkerLogic(s4)
                   ELSE moveCar(s4, SPEED_LINE_FWD, SPEED_LINE_FWD)
        ELSE SteerLeftFirst(s3, val_L, val_M, val_R)

\* runLineLogic of garage_door.ino
runLineLogic(s, vL, vM, vR) ==
  LET s1 == analogRead(s, PIN_ITR_LEFT, vL)
      val_L == s1.ret
      s2 == analogRead(s1, PIN_ITR_MIDDLE, vM)
      val_M == s2.ret
      s3 == analogRead(s2, PIN_ITR_RIGHT, vR)
      val_R == s3.ret
  IN  IF isBlack(val_L) /\ isBlack(val_M) /\ isBlack(val_R)
        THEN LET s4 == millis(s3)
             IN  IF LapTimeUp(s4)
                   THEN MarkerLogic(s4)
                   ELSE moveCar(s4, SPEED_LINE_FWD, SPEED_LINE_FWD)
        ELSE Steer(s3, val_L, val_M, val_R)

\* loop() without the return after stopCar(): a finished car stops and then
\* senses and steers as before
loopNoReturn(s, duration, vL, vM, vR) ==
  LET s0 == IF s.lap_stage = 2 THEN stopCar(s) ELSE s
      s1 == getDistance(s0, duration)
      distance == s1.ret
  IN  IF distance > 0 /\ distance < OBSTACLE_LIMIT
        THEN performOvertake(s1)
        ELSE IF variant = "part_000"
               THEN runLineFollower(s1, vL, vM, vR)
               ELSE runLineLogic(s1, vL, vM, vR)

\* loop() with the obstacle test made inclusive
loopLimitInclusive(s, duration, vL, vM, vR) ==
  IF s.lap_stage = 2
    THEN stopCar(s)
    ELSE LET s1 == getDistance(s, duration)
             distance == s1.ret
         IN  IF distance > 0 /\ distance <= OBSTACLE_LIMIT
               THEN performOvertake(s1)
               ELSE IF variant = "part_000"
                      THEN runLineFollower(s1, vL, vM, vR)
                      ELSE runLineLogic(s1, vL, vM, vR)

\* loop(); duration is what pulseIn returns if it is called, vL, vM, vR what
\* the line sensors present if they are read
loop(s, duration, vL, vM, vR) ==
  IF s.lap_stage = 2
    THEN stopCar(s)
    ELSE LET s1 == getDistance(s, duration)
             distance == s1.ret
         IN  IF distance > 0 /\ distance < OBSTACLE_LIMIT
               THEN performOvertake(s1)
               ELSE IF variant = "part_000"
                      THEN runLineFollower(s1, vL, vM, vR)
                      ELSE runLineLogic(s1, vL, vM, vR)

\* setup() with the lap timer started ahead of the start pause and the creep
setupTimerFirst(s) ==
  LET s1 == digitalWrite(s, PIN_STBY, HIGH)
      s2 == println(s1, "--- Combined Mode Started ---")
      s3 == millis(s2)
      s4 == [s3 EXCEPT !.stage_start_time = s3.ret]
      s5 == delay(s4, 2000)
      s6 == moveCar(s5, SPEED_LINE_FWD, SPEED_LINE_FWD)
  IN  delay(s6, 500)

\* setup(); pinMode and Serial.begin leave nothing the sketch reads
setup(s) ==
  LET s1 == digitalWrite(s, PIN_STBY, HIGH)
      s2 == println(s1, "--- Combined Mode Started ---")
      s3 == delay(s2, 2000)
      s4 == moveCar(s3, SPEED_LINE_FWD, SPEED_LINE_FWD)
      s5 == delay(s4, 500)
      s6 == millis(s5)
  IN  [s6 EXCEPT !.stage_start_time = s6.ret]

----------------------------------------------------------------------------
(* Inputs *)

\* echo lengths in microseconds: none (timeout), the longest that still
\* counts as 0 cm, the shortest of 1 cm, the longest of 9 cm, the shortest of
\* 10 cm.  None is a multiple of 1000, where the float product could round
\* either way.
Durations == {0, 58, 59, 588, 589}

\* intensities a line sensor presents: the low threshold itself, which is
\* off the line, and the next value, which is on it
Samples == {THRESHOLD_LOW, THRESHOLD_LOW + 1}

\* what the clock may gain between two runs of loop(): a stretch up to the
\* minimum lap time exactly, and one millisecond more
ClockSteps == {MIN_LAP_TIME, MIN_LAP_TIME + 1}

Variants == {"part_000", "garage_door"}

\* the arguments isBlack is tried on: the ints within Span of either
\* threshold, the ends of the converter's range and of a 16-bit int
Intensities ==
  (THRESHOLD_LOW - Span .. THRESHOLD_LOW + Span)
    \cup (THRESHOLD_HIGH - Span .. THRESHOLD_HIGH + Span)
    \cup {-32768, -1, 0, 1023, 32767}

----------------------------------------------------------------------------
(* The state machine *)

NoCall == [value |-> 0, ret |-> FALSE, made |-> FALSE]

\* the state a handler starts from: its trace is empty
Cur ==
  [pin |-> pin, now |-> now, trace |-> <<>>, ret |-> 0,
   lap_stage |-> lap_stage, stage_start_time |-> stage_start_time]

Store(s) ==
  /\ pin' = s.pin
  /\ now' = s.now
  /\ trace' = s.trace
  /\ lap_stage' = s.lap_stage
  /\ stage_start_time' = s.stage_start_time

Init ==
  /\ variant \in Variants
  /\ pc = "setup"
  /\ lap_stage = 0
  /\ stage_start_time = 0
  /\ now = 0
  /\ pin = [p \in OutputPins |-> LOW]
  /\ trace = <<>>
  /\ call = NoCall

Setup ==
  /\ pc = "setup"
  /\ Store(setup(Cur))
  /\ pc' = "loop"
  /\ UNCHANGED <<variant, call>>

Loop ==
  /\ pc = "loop"
  /\ \E duration \in Durations, vL \in Samples, vM \in Samples, vR \in Samples :
       \E s \in {loop(Cur, duration, vL, vM, vR)} :
           /\ s.now - s.stage_start_time <= MaxLeg
           /\ Store(s)
  /\ UNCHANGED <<variant, pc, call>>

\* time passes between two runs of loop()
ClockAdvance ==
  /\ pc = "loop"
  /\ \E dt \in ClockSteps :
       /\ now + dt - stage_start_time <= MaxLeg
       /\ now' = now + dt
  /\ UNCHANGED <<variant, pc, lap_stage, stage_start_time, pin, trace, call>>

\* time passes between two runs of loop() until the suppression window of
\* the stage has just run out
WindowRunsOut ==
  /\ pc = "loop" /\ lap_stage # 2
  /\ now - stage_start_time <= MIN_LAP_TIME
  /\ now' = stage_start_time + MIN_LAP_TIME + 1
  /\ UNCHANGED <<variant, pc, lap_stage, stage_start_time, pin, trace, call>>

Next == Setup \/ Loop \/ ClockAdvance

Spec == Init /\ [][Next]_vars

\* isBlack on its own: one call after another, on any of the Intensities
CallIsBlack ==
  /\ \E value \in Intensities :
       call' = [value |-> value, ret |-> isBlack(value), made |-> TRUE]
  /\ UNCHANGED <<variant, pc, lap_stage, stage_start_time, now, pin, trace>>

SpecIsBlack == Init /\ [][CallIsBlack]_vars

----------------------------------------------------------------------------
(* Reading a trace *)

MotorPins == {PIN_PWMA, PIN_AIN1, PIN_PWMB, PIN_BIN1}
LinePins == {PIN_ITR_LEFT, PIN_ITR_MIDDLE, PIN_ITR_RIGHT}

Idx(tr, op) == {i \in DOMAIN tr : tr[i].op = op}
HasOp(tr, op) == Idx(tr, op) # {}
First(S) == CHOOSE i \in S : \A j \in S : i <= j
Last(S) == CHOOSE i \in S : \A j \in S : j <= i
After(tr, i) == SubSeq(tr, i + 1, Len(tr))

\* the three line sensors were read, and what was read from pin p
ReadIdx(tr, p) == {i \in Idx(tr, "analogRead") : tr[i].pin = p}
LineRead(tr) == \A p \in LinePins : ReadIdx(tr, p) # {}
ReadValue(tr, p) == tr[First(ReadIdx(tr, p))].v

\* on-line as the specification defines it
OnLine(v) == THRESHOLD_LOW < v /\ v < THRESHOLD_HIGH
On(tr, p) == OnLine(ReadValue(tr, p))
AllOnLine(tr) == LineRead(tr) /\ \A p \in LinePins : On(tr, p)

\* the first and the last value millis() returned
FirstMillis(tr) == tr[First(Idx(tr, "millis"))].v
LastMillis(tr) == tr[Last(Idx(tr, "millis"))].v

\* the writes to the four motor pins, in order
MotorWrite(e) == e.op \in {"digitalWrite", "analogWrite"} /\ e.pin \in MotorPins
MotorWrites(tr) == SelectSeq(tr, MotorWrite)

\* the commands as sequences of pin writes
StopCmd == <<Ev("analogWrite", PIN_PWMA, 0), Ev("analogWrite", PIN_PWMB, 0)>>
WheelsCmd(rightDir, rightDuty, leftDir, leftDuty) ==
  <<Ev("digitalWrite", PIN_AIN1, rightDir), Ev("analogWrite", PIN_PWMA, rightDuty),
    Ev("digitalWrite", PIN_BIN1, leftDir), Ev("analogWrite", PIN_PWMB, leftDuty)>>
StraightCmd(speed) == WheelsCmd(HIGH, speed, HIGH, speed)
PivotRightCmd(speed) == WheelsCmd(LOW, speed, HIGH, speed)
PivotLeftCmd(speed) == WheelsCmd(HIGH, speed, LOW, speed)
Pause(ms) == <<Ev("delay", 0, ms)>>

----------------------------------------------------------------------------
(* The properties *)

\* what a step taken in FINISHED does
FinishedStep ==
  lap_stage = 2 =>
    /\ lap_stage' = 2
    /\ pin'[PIN_PWMA] = 0 /\ pin'[PIN_PWMB] = 0
    /\ (trace' # trace => trace' = StopCmd)

(* C1: once lap_stage is FINISHED (2) it stays 2, and every run of loop()  *)
(* from then on makes exactly the two calls of stopCar() - PWM 0 on both   *)
(* wheels - and no other: no distance or line sensor is sampled and no     *)
(* motor pin gets a non-zero duty again.                                   *)
C1_FinishedAbsorbing == [][FinishedStep]_vars

\* a run of loop() in FINISHED has happened
C1_Witness == lap_stage = 2 /\ trace = StopCmd

\* a marker read too early changes no stage; stage_start_time, unprimed, is
\* the timer the run's test compared the clock with
EarlyMarkerStep ==
  (AllOnLine(trace') /\ FirstMillis(trace') - stage_start_time <= MIN_LAP_TIME)
    => lap_stage' = lap_stage

(* C2: a run of loop() that reads all three sensors on-line at an elapsed  *)
(* time millis() - stage_start_time of at most MIN_LAP_TIME leaves         *)
(* lap_stage as it is, in OUTBOUND and in RETURNING, however often that    *)
(* happens and also at exactly MIN_LAP_TIME.                               *)
C2_EarlyMarkerIgnored == [][EarlyMarkerStep]_vars

\* RETURNING, all three on-line, exactly MIN_LAP_TIME after the timer was set
C2_Witness ==
  /\ lap_stage = 1
  /\ AllOnLine(trace)
  /\ FirstMillis(trace) - stage_start_time = MIN_LAP_TIME

\* the U-turn's spin was made: a delay of the 180-degree time
SpinMade(tr) == \E i \in Idx(tr, "delay") : tr[i].v = TURN_TIME_180

\* the steps lap_stage may take
StageStep ==
  \/ lap_stage' = lap_stage
  \/ (lap_stage = 0 /\ lap_stage' = 1)
  \/ (lap_stage = 1 /\ lap_stage' = 2)

\* a run of loop() that spins is the one that takes 0 -> 1
SpinStep == (SpinMade(trace') /\ ~ClockAdvance) => (lap_stage = 0 /\ lap_stage' = 1)

(* C3: lap_stage starts at OUTBOUND (0) and changes only by 0 -> 1 and     *)
(* 1 -> 2, so it never decreases, never leaves {0,1,2} and FINISHED is     *)
(* not reached without OUTBOUND -> RETURNING before it; the U-turn spin    *)
(* is made only by the run of loop() that takes 0 -> 1, hence at most once.*)
C3_StageOrder == lap_stage = 0 /\ [][StageStep /\ SpinStep]_vars

\* FINISHED has been reached
C3_Witness == lap_stage = 2 /\ now > stage_start_time + MIN_LAP_TIME

\* what a run of the line follower did after reading the three sensors
AfterReads(tr) == After(tr, Last(Idx(tr, "analogRead")))

(* C4: a run of the line follower does exactly what the first matching     *)
(* rule says for the pattern (L,M,R) it read: (1,1,1) the lap-stage        *)
(* evaluation, which starts by reading the clock; (0,1,0) both wheels      *)
(* forward at cruise speed; R on-line otherwise a pivot right at           *)
(* correction speed; (1,0,0) and (1,1,0) a pivot left at correction speed; *)
(* (0,0,0) stop.  Nothing else is written to the motors.                   *)
C4_FirstMatchingRule ==
  (pc = "loop" /\ LineRead(trace)) =>
    LET L == On(trace, PIN_ITR_LEFT)
        M == On(trace, PIN_ITR_MIDDLE)
        R == On(trace, PIN_ITR_RIGHT)
        did == AfterReads(trace)
    IN  /\ (L /\ M /\ R) => (did # <<>> /\ did[1].op = "millis")
        /\ (~L /\ M /\ ~R) => did = StraightCmd(SPEED_LINE_FWD)
        /\ (R /\ ~(L /\ M)) => did = PivotRightCmd(SPEED_LINE_TURN)
        /\ (L /\ ~R) => did = PivotLeftCmd(SPEED_LINE_TURN)
        /\ (~L /\ ~M /\ ~R) => did = StopCmd

\* left and right on-line, middle off: the pivot right has won over the left rule
C4_Witness ==
  /\ pc = "loop" /\ LineRead(trace)
  /\ On(trace, PIN_ITR_LEFT) /\ ~On(trace, PIN_ITR_MIDDLE) /\ On(trace, PIN_ITR_RIGHT)
  /\ pin[PIN_AIN1] = LOW /\ pin[PIN_BIN1] = HIGH /\ pin[PIN_PWMA] = SPEED_LINE_TURN

(* C5: isBlack(v) is true exactly when THRESHOLD_LOW < v < THRESHOLD_HIGH: *)
(* false at either threshold itself, false below the low and above the     *)
(* high one, true strictly between them.                                   *)
C5_IsBlackWindow ==
  call.made =>
    /\ (call.value <= THRESHOLD_LOW => ~call.ret)
    /\ (call.value >= THRESHOLD_HIGH => ~call.ret)
    /\ ((call.value > THRESHOLD_LOW /\ call.value < THRESHOLD_HIGH) => call.ret)

\* isBlack has been called on the low threshold itself and said no
C5_Witness == call.made /\ call.value = THRESHOLD_LOW /\ ~call.ret

\* performOvertake ran: a delay of the pass time; the distance sample's place
\* in the trace, and the distance getDistance made of it
OvertakeRan(tr) == \E i \in Idx(tr, "delay") : tr[i].v = DRIVE_PASS_TIME
PulseAt(tr) == First(Idx(tr, "pulseIn"))
Sampled(tr) == getDistance(Cur, tr[PulseAt(tr)].v).ret

\* the branch a sensing run of loop() takes
ObstacleBranch ==
  (pc = "loop" /\ HasOp(trace, "pulseIn")) =>
    /\ Cardinality(Idx(trace, "pulseIn")) = 1
    /\ \A i \in Idx(trace, "analogRead") \cup Idx(trace, "millis") : i > PulseAt(trace)
    /\ \A i \in DOMAIN trace : MotorWrite(trace[i]) => i > PulseAt(trace)
    /\ OvertakeRan(trace) <=> (0 < Sampled(trace) /\ Sampled(trace) < OBSTACLE_LIMIT)
    /\ OvertakeRan(trace) => (~HasOp(trace, "analogRead") /\ ~HasOp(trace, "millis"))
    /\ ~OvertakeRan(trace) => LineRead(trace)

\* a run that overtakes leaves the two globals alone
OvertakeStep ==
  OvertakeRan(trace') =>
    (lap_stage' = lap_stage /\ stage_start_time' = stage_start_time)

(* C6: in a run of loop() outside FINISHED the distance is sampled once,   *)
(* before any line sensor is read; performOvertake runs exactly when the   *)
(* sampled distance d has 0 < d < OBSTACLE_LIMIT, and then the line        *)
(* follower does not run: no line sensor is read, the clock is not read    *)
(* for a marker, and lap_stage and stage_start_time stay as they are.      *)
(* Otherwise the line follower runs.                                       *)
C6_ObstaclePreempts == []ObstacleBranch /\ [][OvertakeStep]_vars

\* RETURNING, an echo of 9 cm: the overtake has run and no line sensor was read
C6_Witness ==
  /\ lap_stage = 1
  /\ HasOp(trace, "pulseIn") /\ Sampled(trace) = OBSTACLE_LIMIT - 1
  /\ OvertakeRan(trace) /\ ~HasOp(trace, "analogRead")

\* pulseIn returned 0
TimedOut(tr) == HasOp(tr, "pulseIn") /\ tr[PulseAt(tr)].v = 0

(* C7: when the echo times out (pulseIn returns 0) getDistance returns the *)
(* sentinel 200, the overtake is not run and the line follower runs in     *)
(* that same run of loop(): the timeout does not stop the car, which       *)
(* drives on at cruise speed when only the middle sensor is on the line.   *)
C7_TimeoutIsFar ==
  /\ getDistance(Cur, 0).ret = 200
  /\ (pc = "loop" /\ TimedOut(trace)) =>
       /\ ~OvertakeRan(trace)
       /\ LineRead(trace)
       /\ (~On(trace, PIN_ITR_LEFT) /\ On(trace, PIN_ITR_MIDDLE) /\ ~On(trace, PIN_ITR_RIGHT))
            => (pin[PIN_PWMA] = SPEED_LINE_FWD /\ pin[PIN_PWMB] = SPEED_LINE_FWD)

\* a timeout in OUTBOUND with the line under the middle sensor: the car drives on
C7_Witness ==
  /\ pc = "loop" /\ lap_stage = 0 /\ TimedOut(trace) /\ LineRead(trace)
  /\ ~On(trace, PIN_ITR_LEFT) /\ On(trace, PIN_ITR_MIDDLE) /\ ~On(trace, PIN_ITR_RIGHT)
  /\ pin[PIN_PWMA] = SPEED_LINE_FWD

\* the overtake as the specification lists it, with pauses of p1 and p2 ms
\* and the drives at duty fwd
OvertakeSeq(p1, fwd, p2) ==
  StopCmd \o Pause(p1)
    \o PivotRightCmd(SPEED_MANEUVER) \o Pause(TURN_TIME_90)
    \o StraightCmd(fwd) \o Pause(DRIVE_SIDE_TIME)
    \o PivotLeftCmd(SPEED_MANEUVER) \o Pause(TURN_TIME_90)
    \o StraightCmd(fwd) \o Pause(DRIVE_PASS_TIME)
    \o PivotLeftCmd(SPEED_MANEUVER) \o Pause(TURN_TIME_90)
    \o StraightCmd(fwd) \o Pause(DRIVE_SIDE_TIME)
    \o PivotRightCmd(SPEED_MANEUVER) \o Pause(TURN_TIME_90)
    \o StopCmd \o Pause(p2)

(* C8: a triggered overtake is always the same sequence of commands after  *)
(* the distance sample, with nothing read in between: stop, pause, pivot   *)
(* right for the 90-degree time, forward for the side time, pivot left     *)
(* (90), forward for the pass time, pivot left (90), forward for the same  *)
(* side time, pivot right (90), stop, pause.  It ends with both PWM        *)
(* duties 0 and is the same for every triggering distance.                 *)
C8_OvertakeSequence ==
  (pc = "loop" /\ OvertakeRan(trace)) =>
    LET did == After(trace, PulseAt(trace))
    IN  /\ Len(did) = Len(OvertakeSeq(1, 1, 1))
        /\ did[3].v > 0 /\ did[10].v > 0 /\ did[Len(did)].v > 0
        /\ did = OvertakeSeq(did[3].v, did[10].v, did[Len(did)].v)
        /\ pin[PIN_PWMA] = 0 /\ pin[PIN_PWMB] = 0

\* an overtake triggered at 1 cm has run to its end in garage_door.ino
C8_Witness ==
  /\ variant = "garage_door" /\ pc = "loop" /\ OvertakeRan(trace)
  /\ Sampled(trace) = 1
  /\ trace[Len(trace)].op = "delay"

\* the U-turn: stop, a pause of p ms, right wheel forward and left wheel
\* reverse at maneuver speed for the 180-degree time, stop
SpinSeq(p) ==
  StopCmd \o Pause(p)
    \o WheelsCmd(HIGH, SPEED_MANEUVER, LOW, SPEED_MANEUVER) \o Pause(TURN_TIME_180)
    \o StopCmd

\* the U-turn starts at place i of the trace
SpinAt(tr, i) ==
  /\ i + Len(SpinSeq(1)) - 1 <= Len(tr)
  /\ tr[i + 2].op = "delay" /\ tr[i + 2].v > 0
  /\ SubSeq(tr, i, i + Len(SpinSeq(1)) - 1) = SpinSeq(tr[i + 2].v)

\* in `stage', a run with trace tr took no overtake, read all three sensors
\* on-line and found more than MIN_LAP_TIME elapsed
MarkerDue(stage, tr) ==
  /\ lap_stage = stage
  /\ ~OvertakeRan(tr)
  /\ AllOnLine(tr)
  /\ FirstMillis(tr) - stage_start_time > MIN_LAP_TIME

\* what such a run does in OUTBOUND
UturnStep ==
  MarkerDue(0, trace') =>
    /\ lap_stage' = 1
    /\ \E i \in DOMAIN trace' :
         /\ SpinAt(trace', i)
         /\ Last(Idx(trace', "millis")) > i + Len(SpinSeq(1)) - 1
         /\ stage_start_time' = LastMillis(trace')
         /\ stage_start_time' >= FirstMillis(trace') + trace'[i + 2].v + TURN_TIME_180

(* C9: a run of loop() in OUTBOUND with no obstacle trigger, all three     *)
(* sensors on-line and more than MIN_LAP_TIME elapsed makes the U-turn -   *)
(* stop, pause, right wheel forward and left wheel reverse at maneuver     *)
(* speed for the 180-degree time, stop - then has lap_stage RETURNING and  *)
(* stage_start_time equal to the clock as read after the spin, so the      *)
(* return leg's suppression window starts after the U-turn.                *)
C9_UturnThenReset == [][UturnStep]_vars

\* part_000 has made the U-turn and set the timer to the clock read after it
C9_Witness ==
  /\ variant = "part_000" /\ lap_stage = 1
  /\ SpinMade(trace)
  /\ stage_start_time = LastMillis(trace)
  /\ stage_start_time > FirstMillis(trace) + TURN_TIME_180

\* what such a run does in RETURNING
HomeStep ==
  MarkerDue(1, trace') =>
    /\ lap_stage' = 2
    /\ stage_start_time' = stage_start_time
    /\ MotorWrites(trace') = StopCmd
    /\ ~SpinMade(trace')
    /\ ~HasOp(trace', "delay")

(* C10: a run of loop() in RETURNING with no obstacle trigger, all three   *)
(* sensors on-line and more than MIN_LAP_TIME elapsed writes nothing to    *)
(* the motors but the two zero duties of stopCar(), makes no U-turn, has   *)
(* lap_stage FINISHED and leaves stage_start_time unchanged.               *)
C10_HomeStops == [][HomeStep]_vars

\* garage_door.ino has stopped at the home marker
C10_Witness ==
  /\ variant = "garage_door" /\ lap_stage = 2
  /\ AllOnLine(trace) /\ MotorWrites(trace) = StopCmd
  /\ FirstMillis(trace) - stage_start_time > MIN_LAP_TIME

\* a marker read too early is driven over: after the clock is read the run
\* writes the straight-ahead command and nothing else, and leaves the timer.
\* A step of the clock alone runs no handler.
TooEarlyStep ==
  (/\ ~ClockAdvance
   /\ AllOnLine(trace')
   /\ FirstMillis(trace') - stage_start_time <= MIN_LAP_TIME)
    => /\ After(trace', First(Idx(trace', "millis"))) = StraightCmd(SPEED_LINE_FWD)
       /\ pin'[PIN_AIN1] = HIGH /\ pin'[PIN_BIN1] = HIGH
       /\ pin'[PIN_PWMA] = SPEED_LINE_FWD /\ pin'[PIN_PWMB] = SPEED_LINE_FWD
       /\ stage_start_time' = stage_start_time

(* C11: a run of loop() that reads all three sensors on-line when at most  *)
(* MIN_LAP_TIME has elapsed commands both wheels forward at                *)
(* SPEED_LINE_FWD and does not modify stage_start_time, in OUTBOUND and in *)
(* RETURNING alike.                                                        *)
C11_TooEarlyDrivesOn == [][TooEarlyStep]_vars

\* OUTBOUND, straight after setup(): the marker under the car is driven over
C11_Witness ==
  /\ lap_stage = 0
  /\ AllOnLine(trace)
  /\ FirstMillis(trace) = stage_start_time
  /\ pin[PIN_AIN1] = HIGH /\ pin[PIN_PWMA] = SPEED_LINE_FWD
  /\ pin[PIN_BIN1] = HIGH /\ pin[PIN_PWMB] = SPEED_LINE_FWD

\* the timer holds the clock as the run read it last
TimerIsLastRead(tr, t) == HasOp(tr, "millis") /\ t = LastMillis(tr)

\* a run that changes the stage, spins or overtakes restarts the timer
ResetEverywhereStep ==
  (/\ ~ClockAdvance
   /\ pc = "loop"
   /\ (lap_stage' # lap_stage \/ SpinMade(trace') \/ OvertakeRan(trace')))
    => TimerIsLastRead(trace', stage_start_time')

\* C12 as the specification states it: the timer is restarted on every
\* change of lap_stage and after the U-turn and the overtake
C12_ResetEverywhere == [][ResetEverywhereStep]_vars

\* where the timer is restarted and where it is not
TimerStep ==
  ~ClockAdvance =>
    /\ pc = "setup" =>
         (TimerIsLastRead(trace', stage_start_time') /\ stage_start_time' = now')
    /\ (lap_stage = 0 /\ lap_stage' = 1) =>
         /\ SpinMade(trace')
         /\ TimerIsLastRead(trace', stage_start_time')
         /\ \A i \in Idx(trace', "delay") :
              trace'[i].v = TURN_TIME_180 => i < Last(Idx(trace', "millis"))
    /\ (lap_stage = 1 /\ lap_stage' = 2) => stage_start_time' = stage_start_time
    /\ OvertakeRan(trace') =>
         (~HasOp(trace', "millis") /\ stage_start_time' = stage_start_time)
    /\ stage_start_time' # stage_start_time =>
         (pc = "setup" \/ (lap_stage = 0 /\ lap_stage' = 1))

(* C12: stage_start_time is set to the clock by setup() and by the run of  *)
(* loop() that takes OUTBOUND -> RETURNING, there after the U-turn's spin, *)
(* and nowhere else: the step RETURNING -> FINISHED leaves it as it is,    *)
(* and so does a run that overtakes, which does not read the clock.        *)
C12_TimerResets == [][TimerStep]_vars

\* RETURNING: an overtake has ended past the suppression window and the
\* timer is still the one the U-turn set
C12_Witness ==
  /\ lap_stage = 1
  /\ OvertakeRan(trace) /\ ~HasOp(trace, "millis")
  /\ trace[Len(trace)].op = "delay"
  /\ now - stage_start_time > MIN_LAP_TIME

\* a run whose only motor command is stopCar() changes the two duties and no
\* other pin; an overtake ends with turnRight and then stopCar(), which
\* leaves the pivot's direction levels standing under zero duties
StopStep ==
  /\ MotorWrites(trace') = StopCmd =>
       pin' = [pin EXCEPT ![PIN_PWMA] = 0, ![PIN_PWMB] = 0]
  /\ OvertakeRan(trace') =>
       /\ pin'[PIN_PWMA] = 0 /\ pin'[PIN_PWMB] = 0
       /\ pin'[PIN_AIN1] = LOW /\ pin'[PIN_BIN1] = HIGH

(* C13: stopCar() writes duty 0 to both PWM pins and leaves the direction  *)
(* pins AIN1 and BIN1 as the command before it set them; after turnRight   *)
(* and then stopCar() the right wheel's direction is still LOW and the     *)
(* left wheel's still HIGH.                                                *)
C13_StopKeepsDirection == [][StopStep]_vars

\* the line was lost after a pivot right: the car stands with the pivot's
\* direction levels
C13_Witness ==
  /\ pc = "loop" /\ LineRead(trace)
  /\ MotorWrites(trace) = StopCmd
  /\ pin[PIN_AIN1] = LOW /\ pin[PIN_BIN1] = HIGH
  /\ pin[PIN_PWMA] = 0 /\ pin[PIN_PWMB] = 0

\* the step is a run of loop() through the marker branch: outside FINISHED,
\* no overtake, all three sensors on-line, more than MIN_LAP_TIME elapsed
MarkerBranchStep ==
  /\ pc = "loop" /\ lap_stage # 2
  /\ ~ClockAdvance
  /\ ~OvertakeRan(trace')
  /\ AllOnLine(trace')
  /\ FirstMillis(trace') - stage_start_time > MIN_LAP_TIME

\* who writes the two globals
GlobalsStep ==
  /\ lap_stage' # lap_stage => MarkerBranchStep
  /\ stage_start_time' # stage_start_time => (pc = "setup" \/ MarkerBranchStep)
  /\ pc = "loop" => pc' = "loop"

(* C14: lap_stage is written only by a run of loop() through the marker    *)
(* branch (all three sensors on-line and more than MIN_LAP_TIME elapsed),  *)
(* stage_start_time only there and by setup(), which runs once; an         *)
(* overtake, every other line-following rule, the too-early branch and     *)
(* every run in FINISHED leave both as they are.                           *)
C14_GlobalsWriters == [][GlobalsStep]_vars

\* RETURNING, past the suppression window: a run that did not read the
\* marker pattern has left the stage and the timer of the U-turn
C14_Witness ==
  /\ lap_stage = 1
  /\ LineRead(trace) /\ ~AllOnLine(trace)
  /\ ~HasOp(trace, "millis")
  /\ now - stage_start_time > MIN_LAP_TIME

\* a trace that ends with the creep and the one read of the clock after it:
\* both wheels forward at cruise speed, a wait, millis()
EndsWithCreep(tr) ==
  /\ Len(tr) >= 6
  /\ SubSeq(tr, Len(tr) - 5, Len(tr) - 2) = StraightCmd(SPEED_LINE_FWD)
  /\ tr[Len(tr) - 1].op = "delay" /\ tr[Len(tr) - 1].v > 0
  /\ Idx(tr, "millis") = {Len(tr)}

\* setup() reads no sensor, creeps and starts the timer at its end
StartupStep ==
  pc = "setup" =>
    /\ ~HasOp(trace', "analogRead") /\ ~HasOp(trace', "pulseIn")
    /\ EndsWithCreep(trace')
    /\ stage_start_time' = LastMillis(trace') /\ stage_start_time' = now'
    /\ lap_stage' = 0

\* OUTBOUND keeps the timer of setup(), and the marker that ends OUTBOUND is
\* read more than MIN_LAP_TIME after it
FirstMarkerStep ==
  (pc = "loop" /\ lap_stage = 0) =>
    /\ lap_stage' = 0 => stage_start_time' = stage_start_time
    /\ lap_stage' # 0 =>
         /\ AllOnLine(trace')
         /\ FirstMillis(trace') > stage_start_time + MIN_LAP_TIME

(* C15: setup() commands both wheels forward at cruise speed and waits a   *)
(* fixed time before it sets stage_start_time, and reads no line sensor    *)
(* and no distance before that; the timer then stays as setup() set it     *)
(* until OUTBOUND ends, so the first marker acted on is read more than     *)
(* MIN_LAP_TIME after the end of the startup creep.                        *)
C15_StartupCreep == [][StartupStep /\ FirstMarkerStep]_vars

\* setup() has run: the car creeps forward and the timer is the clock
C15_Witness ==
  /\ pc = "loop" /\ lap_stage = 0
  /\ EndsWithCreep(trace)
  /\ stage_start_time = now
  /\ pin[PIN_PWMA] = SPEED_LINE_FWD /\ pin[PIN_PWMB] = SPEED_LINE_FWD

\* a non-zero duty was written to a wheel
NonZeroCmd(tr) ==
  \E i \in Idx(tr, "analogWrite") : tr[i].pin \in {PIN_PWMA, PIN_PWMB} /\ tr[i].v > 0

\* the three sensors were read and none, or some, was on-line
NoneOnLine(tr) == LineRead(tr) /\ \A p \in LinePins : ~On(tr, p)
SomeOnLine(tr) == LineRead(tr) /\ \E p \in LinePins : On(tr, p)

\* a run that finds the line lost stops and leaves the two globals
LineLostStep ==
  (~ClockAdvance /\ NoneOnLine(trace')) =>
    /\ MotorWrites(trace') = StopCmd
    /\ lap_stage' = lap_stage /\ stage_start_time' = stage_start_time

\* a run outside FINISHED that sees the line, or overtakes
SeesWayStep ==
  /\ ~ClockAdvance
  /\ pc = "loop" /\ lap_stage # 2
  /\ (SomeOnLine(trace') \/ OvertakeRan(trace'))

\* from the present state some input makes loop() drive a wheel
CanDrive ==
  \E duration \in Durations, v \in Samples :
    NonZeroCmd(loop(Cur, duration, v, v, v).trace)

\* FINISHED is where no input drives a wheel, and FINISHED stays
OnlyFinishedIsFinal == pc = "loop" => (lap_stage = 2 <=> ~CanDrive)

\* C16 as the specification states it: every run outside FINISHED that sees
\* the line or overtakes writes a non-zero duty
C16_AlwaysDrivesAgain ==
  /\ []OnlyFinishedIsFinal
  /\ [][LineLostStep /\ (SeesWayStep => NonZeroCmd(trace'))]_vars

\* such a run drives unless it is the one that reads the home marker
DrivesAgainStep ==
  (SeesWayStep /\ ~MarkerDue(1, trace')) => NonZeroCmd(trace')

(* C16: a run of loop() that finds no sensor on-line calls stopCar() and   *)
(* leaves lap_stage and stage_start_time; the stop does not latch: every   *)
(* run outside FINISHED that sees a sensor on-line, or overtakes, writes a *)
(* non-zero duty again, except the run in RETURNING that reads the home    *)
(* marker past the suppression window, which only stops and enters         *)
(* FINISHED.  FINISHED is the only stage in which no input makes loop()    *)
(* drive a wheel.                                                          *)
C16_StopNotLatching ==
  /\ []OnlyFinishedIsFinal
  /\ [][LineLostStep /\ DrivesAgainStep]_vars

\* RETURNING: the line is lost and the car stands, neither global changed
C16_Witness ==
  /\ pc = "loop" /\ lap_stage = 1
  /\ NoneOnLine(trace)
  /\ MotorWrites(trace) = StopCmd
  /\ pin[PIN_PWMA] = 0 /\ pin[PIN_PWMB] = 0
  /\ CanDrive

\* a run of loop() outside FINISHED, past the suppression window, in which
\* no obstacle triggers (no echo, or the shortest echo of OBSTACLE_LIMIT cm)
\* and all three sensors are on-line
MarkerRun ==
  /\ pc = "loop" /\ lap_stage # 2
  /\ now - stage_start_time > MIN_LAP_TIME
  /\ \E duration \in {0, 589}, v \in {THRESHOLD_LOW + 1} :
       \E s \in {loop(Cur, duration, v, v, v)} :
           /\ s.now - s.stage_start_time <= MaxLeg
           /\ Store(s)
  /\ UNCHANGED <<variant, pc, call>>

\* the sketch on a track where time advances and, in each stage, the marker
\* pattern is read again and again once the window has run out: setup() runs
\* after reset, a window that is open runs out, and a marker run that stays
\* possible is made
NextRoundTrip == Next \/ WindowRunsOut
RoundTripFairness ==
  /\ WF_vars(Setup)
  /\ WF_vars(WindowRunsOut)
  /\ WF_vars(MarkerRun)
SpecRoundTrip == Init /\ [][NextRoundTrip]_vars /\ RoundTripFairness

(* C17: if time advances and, in OUTBOUND and in RETURNING, runs of loop() *)
(* with no obstacle trigger and all three sensors on-line keep coming      *)
(* after the suppression window has run out, the car reaches FINISHED and  *)
(* from then on stays there with both duties 0.  Every run of loop() is a  *)
(* finite sequence of board calls and so ends.                             *)
C17_RoundTrip ==
  <>[](lap_stage = 2 /\ pin[PIN_PWMA] = 0 /\ pin[PIN_PWMB] = 0)

\* the round trip is done: FINISHED, stopped, after a U-turn that set the timer
C17_Witness ==
  /\ pc = "loop" /\ lap_stage = 2
  /\ pin[PIN_PWMA] = 0 /\ pin[PIN_PWMB] = 0
  /\ stage_start_time > MIN_LAP_TIME
  /\ now = stage_start_time + MIN_LAP_TIME + 1

\* the run read the three sensors and did not read the clock: the pattern was
\* not the marker's, and one of the rules below the marker rule was applied
BelowMarkerRule(tr) == LineRead(tr) /\ ~HasOp(tr, "millis")

(* C18: the "loose center" rule never fires.  Control reaches its test     *)
(* only with the left and the right sensor off-line and the pattern not    *)
(* (0,1,0), and then the middle sensor is off-line as well and the run     *)
(* stops; so every straight-ahead command given outside the marker rule    *)
(* is given on the pattern (0,1,0), by the rule for the centred line.      *)
C18_LooseCenterDead ==
  (pc = "loop" /\ BelowMarkerRule(trace)) =>
    LET L == On(trace, PIN_ITR_LEFT)
        M == On(trace, PIN_ITR_MIDDLE)
        R == On(trace, PIN_ITR_RIGHT)
        did == AfterReads(trace)
    IN  /\ did = StraightCmd(SPEED_LINE_FWD) => (~L /\ M /\ ~R)
        /\ (~L /\ ~R /\ ~(~L /\ M /\ ~R)) => (~M /\ did = StopCmd)

\* garage_door.ino in OUTBOUND: left and right off-line and the line not
\* centred - the middle sensor is off-line too and the car has stopped
C18_Witness ==
  /\ variant = "garage_door" /\ pc = "loop" /\ lap_stage = 0
  /\ BelowMarkerRule(trace)
  /\ ~On(trace, PIN_ITR_LEFT) /\ ~On(trace, PIN_ITR_RIGHT)
  /\ ~On(trace, PIN_ITR_MIDDLE)
  /\ AfterReads(trace) = StopCmd

\* the time a run spent in delay()
RECURSIVE Waited(_)
Waited(tr) ==
  IF tr = <<>>
    THEN 0
    ELSE (IF Head(tr).op = "delay" THEN Head(tr).v ELSE 0) + Waited(Tail(tr))

\* an overtake lets the clock run on by its waits and leaves the timer, so
\* the elapsed time grows by that much
OvertakeClockStep ==
  (~ClockAdvance /\ OvertakeRan(trace')) =>
    /\ Waited(trace') > 0
    /\ now' = now + Waited(trace')
    /\ stage_start_time' = stage_start_time

\* the run made last was an overtake, and the suppression window, open when
\* it began, has run out by its end
WindowShutInOvertake ==
  /\ pc = "loop" /\ lap_stage # 2
  /\ OvertakeRan(trace)
  /\ now - Waited(trace) - stage_start_time <= MIN_LAP_TIME
  /\ now - stage_start_time > MIN_LAP_TIME

\* the next run of loop(), made right then with no obstacle trigger and all
\* three sensors on-line, changes the stage and gives the command of the
\* marker: the spin in OUTBOUND, the stop alone in RETURNING
MarkerRightAfter ==
  \A duration \in {0, 589}, v \in {x \in Samples : OnLine(x)} :
    LET s == loop(Cur, duration, v, v, v)
    IN  /\ s.lap_stage = lap_stage + 1
        /\ lap_stage = 0 => SpinMade(s.trace)
        /\ lap_stage = 1 => MotorWrites(s.trace) = StopCmd

(* C19: the time spent in performOvertake counts toward the suppression    *)
(* window: an overtake advances the clock by its waits and neither resets  *)
(* nor pauses stage_start_time, so a window still open when the overtake   *)
(* began can have run out when it returns, and then the very next run of   *)
(* loop(), if it reads all three sensors on-line, changes the stage        *)
(* (U-turn or FINISHED) with no ordinary line-following run in between.    *)
C19_OvertakeCountsToWindow ==
  /\ [](WindowShutInOvertake => MarkerRightAfter)
  /\ [][OvertakeClockStep]_vars

\* OUTBOUND: the window was open, and not at its very end, when the overtake
\* made last began, and has run out during it
C19_Witness ==
  /\ lap_stage = 0
  /\ WindowShutInOvertake
  /\ trace[Len(trace)].op = "delay"
  /\ now - Waited(trace) - stage_start_time > 0
  /\ now - Waited(trace) - stage_start_time < MIN_LAP_TIME

\* the inputs of a run as the trace shows them: whether the obstacle
\* triggered, whether sensor p was on-line, whether the lap time measured
\* from timer t0 was up
Triggered(tr) ==
  HasOp(tr, "pulseIn") /\ 0 < Sampled(tr) /\ Sampled(tr) < OBSTACLE_LIMIT
Saw(tr, p) == LineRead(tr) /\ On(tr, p)
TimeWasUp(tr, t0) == HasOp(tr, "millis") /\ FirstMillis(tr) - t0 > MIN_LAP_TIME

\* the kind of action a run took, whatever the duties and the waits
Kind(tr) ==
  LET mw == MotorWrites(tr)
  IN  IF OvertakeRan(tr) THEN "overtake"
      ELSE IF SpinMade(tr) THEN "u-turn"
      ELSE IF HasOp(tr, "HOME REACHED -> STOPPING") THEN "finish"
      ELSE IF mw = StopCmd THEN "stop"
      ELSE IF Len(mw) = 4 /\ mw[2].v > 0 /\ mw = StraightCmd(mw[2].v) THEN "straight"
      ELSE IF Len(mw) = 4 /\ mw[2].v > 0 /\ mw = PivotRightCmd(mw[2].v) THEN "pivot right"
      ELSE IF Len(mw) = 4 /\ mw[2].v > 0 /\ mw = PivotLeftCmd(mw[2].v) THEN "pivot left"
      ELSE "other"

\* the one decision table: the kind of action and the next stage, from the
\* stage and the inputs alone
Decision(stage, trig, L, M, R, up) ==
  IF stage = 2 THEN <<"stop", 2>>
  ELSE IF trig THEN <<"overtake", stage>>
  ELSE IF L /\ M /\ R
    THEN IF ~up THEN <<"straight", stage>>
         ELSE IF stage = 0 THEN <<"u-turn", 1>>
         ELSE <<"finish", 2>>
  ELSE IF M /\ ~L /\ ~R THEN <<"straight", stage>>
  ELSE IF R THEN <<"pivot right", stage>>
  ELSE IF L THEN <<"pivot left", stage>>
  ELSE <<"stop", stage>>

\* every run of loop(), of either sketch, decides by that table
SameDecisionStep ==
  (~ClockAdvance /\ pc = "loop") =>
    <<Kind(trace'), lap_stage'>> =
      Decision(lap_stage, Triggered(trace'),
               Saw(trace', PIN_ITR_LEFT), Saw(trace', PIN_ITR_MIDDLE),
               Saw(trace', PIN_ITR_RIGHT),
               TimeWasUp(trace', stage_start_time))

\* what a run did after the spin that starts at place i of its trace
PostSpin(tr, i) == After(tr, i + Len(SpinSeq(1)) - 1)

\* part_000: pause, creep, then the timer; garage_door.ino: stop and dwell,
\* the timer, then the creep
PauseCreepReset(did) ==
  /\ Len(did) = 7
  /\ did[1].op = "delay" /\ did[1].v > 0
  /\ SubSeq(did, 2, 5) = StraightCmd(SPEED_LINE_FWD)
  /\ did[6].op = "delay" /\ did[6].v > 0
  /\ did[7].op = "millis"
DwellResetCreep(did) ==
  /\ Len(did) = 9
  /\ SubSeq(did, 1, 2) = StopCmd
  /\ did[3].op = "delay" /\ did[3].v > 0
  /\ did[4].op = "millis"
  /\ SubSeq(did, 5, 8) = StraightCmd(SPEED_LINE_FWD)
  /\ did[9].op = "delay" /\ did[9].v > 0

\* the two sketches part after the spin, each in its own way
PostSpinStep ==
  (~ClockAdvance /\ SpinMade(trace')) =>
    \E i \in DOMAIN trace' :
      /\ SpinAt(trace', i)
      /\ variant = "part_000" =>
           (PauseCreepReset(PostSpin(trace', i)) /\ stage_start_time' = now')
      /\ variant = "garage_door" =>
           (DwellResetCreep(PostSpin(trace', i)) /\ stage_start_time' < now')

(* C20: the two sketches implement the same decision logic: in either one  *)
(* the kind of action of a run of loop() - overtake, U-turn, finish,       *)
(* straight, pivot right, pivot left, stop - and the stage after it are    *)
(* given by one and the same table of the stage, the obstacle trigger, the *)
(* line pattern and whether more than MIN_LAP_TIME has elapsed, so equal   *)
(* inputs give equal stages and kinds of action.  After the U-turn's spin  *)
(* part_000 pauses, creeps forward and then sets the timer, while          *)
(* garage_door.ino dwells stopped, sets the timer and then creeps forward. *)
C20_SameDecisionLogic == [][SameDecisionStep /\ PostSpinStep]_vars

\* garage_door.ino has made the U-turn: RETURNING, and the timer was set
\* before the creep
C20_Witness ==
  /\ variant = "garage_door" /\ lap_stage = 1
  /\ Kind(trace) = "u-turn"
  /\ stage_start_time = LastMillis(trace)
  /\ stage_start_time < now
  /\ trace[Len(trace)].op = "delay"

====
